---- MODULE Spec2Model ----
(***************************************************************************)
(* A model of eb-appver-creator.py: one run of main() is the pipeline      *)
(*   appver_exists -> create_zipfile -> upload_appver -> create_appver     *)
(* followed by the top-level handler of __main__.  The file system, the    *)
(* object storage and the orchestrator are the environment.  Paths, keys   *)
(* and messages are strings, built and sliced as the code builds and       *)
(* slices them.                                                            *)
(***************************************************************************)
EXTENDS Integers, Sequences, FiniteSets, TLC

VARIABLES
    cwd,          \* os.getcwd(): the working directory
    fs,           \* the file system below cwd: a set of [path, kind]
    ignoreRules,  \* what parse_gitignore yields for each ignore file: the paths it matches
    args,         \* the parsed command line
    ebVersions,   \* the orchestrator's application versions
    s3Objects,    \* the objects in storage
    run,          \* the number of the current run of the program
    pc,           \* the position of main(): check, build, upload, register, exit, done
    stages,       \* the stages this run has started, in order
    found,        \* what appver_exists returned in this run
    tmpfile,      \* the temporary file f_raw: none, open, closed
    zip,          \* the ZipFile over it: none, open, closed, plus its entries
    used,         \* the ignore file chosen by _add_files_to_zipfile, and the entries it skipped
    uploadReq,    \* the argument and result of upload_fileobj in this run
    createReq,    \* the argument and result of create_application_version in this run
    s3_key,       \* main's local s3_key
    raised,       \* the exception leaving main(), if any
    log,          \* the logging calls at warning level and the final info line
    exit,         \* how the process ended: code, printed message, traceback
    exitCodes     \* the exit codes of the finished runs, in order

vars == <<cwd, fs, ignoreRules, args, ebVersions, s3Objects, run, pc, stages, found,
          tmpfile, zip, used, uploadReq, createReq, s3_key, raised, log, exit, exitCodes>>

(***************************************************************************)
(* Bounds of the model.                                                    *)
(***************************************************************************)
MaxNodes == 3      \* nodes of a tree whose archive is built (SpecArchive)
MaxRunNodes == 2   \* nodes of the tree of a whole run (Spec)
MaxRuns == 2       \* runs of the program, one after the other

Names == {"a", "b", ".ebignore", ".gitignore"}
Kinds == {"file", "dir"}
BaseDirs == {"/", "/w"}
Applications == {"myapp"}
Labels == {"v42", "7"}
Buckets == {"bkt"}

(***************************************************************************)
(* Exceptions.                                                             *)
(***************************************************************************)
NoError == [type |-> "none", msg |-> ""]
ProgramError(m) == [type |-> "ProgramError", msg |-> m]
ClientError(m) == [type |-> "ClientError", msg |-> m]
EndpointConnectionError == [type |-> "EndpointConnectionError", msg |-> "Could not connect to the endpoint URL"]
FileNotFoundError(f) == [type |-> "FileNotFoundError", msg |-> f]

(***************************************************************************)
(* Strings and paths.                                                      *)
(***************************************************************************)
\* Python's s[i:]
SliceFrom(s, i) == SubSeq(s, i + 1, Len(s))

StartsWithSep(p) == Len(p) > 0 /\ SubSeq(p, 1, 1) = "/"
EndsWithSep(p) == Len(p) > 0 /\ SubSeq(p, Len(p), Len(p)) = "/"

\* os.path.join(path, name), which is DirEntry.path for an entry of scandir(path)
JoinPath(p, name) == IF EndsWithSep(p) THEN p \o name ELSE p \o "/" \o name

IsFile(files, p) == \E n \in files : n.path = p /\ n.kind = "file"
IsDir(files, p) == \E n \in files : n.path = p /\ n.kind = "dir"
Exists(files, p) == \E n \in files : n.path = p

\* The working directory itself is a directory of the file system.
DirPaths(base, files) == {base} \cup {n.path : n \in {m \in files : m.kind = "dir"}}
NonDirPaths(files) == {n.path : n \in {m \in files : m.kind # "dir"}}

(***************************************************************************)
(* The trees below a working directory with at most k nodes.               *)
(***************************************************************************)
RECURSIVE TreesUpTo(_, _)
TreesUpTo(base, k) ==
    IF k = 0 THEN {{}}
    ELSE LET smaller == TreesUpTo(base, k - 1)
             grown == UNION { { t \cup {[path |-> JoinPath(d, nm), kind |-> kd]} :
                                  d \in DirPaths(base, t), nm \in Names, kd \in Kinds } :
                              t \in smaller }
         IN  smaller \cup { t \in grown :
                              \A n1 \in t, n2 \in t : n1.path = n2.path => n1 = n2 }

(***************************************************************************)
(* _scantree: the entries of the tree below path that are not directories, *)
(* depth first.  order is the sequence in which the directory listing      *)
(* yields the nodes (os.scandir gives no order).                           *)
(***************************************************************************)
ScandirSeq(path, files, order) ==
    SelectSeq(order, LAMBDA n : n \in files /\ \E nm \in Names : n.path = JoinPath(path, nm))

RECURSIVE _scantree(_, _, _)
_scantree(path, files, order) ==
    LET entries == ScandirSeq(path, files, order)
        F[i \in 0..Len(entries)] ==
            IF i = 0 THEN <<>>
            ELSE F[i - 1] \o
                 (IF entries[i].kind = "dir"
                  THEN _scantree(entries[i].path, files, order)
                  ELSE <<entries[i]>>)
    IN  F[Len(entries)]

\* The orders in which the directory listings can yield the nodes.
Orders(files) ==
    {o \in [1..Cardinality(files) -> files] : \A i, j \in 1..Cardinality(files) : o[i] = o[j] => i = j}

(***************************************************************************)
(* _add_files_to_zipfile.                                                  *)
(***************************************************************************)
IgnoreFiles == {".ebignore", ".gitignore"}

\* The if / elif / else over os.path.isfile, relative to the working directory.
ChooseIgnore_GitFirst(base, files) ==
    IF IsFile(files, JoinPath(base, ".gitignore")) THEN ".gitignore"
    ELSE IF IsFile(files, JoinPath(base, ".ebignore")) THEN ".ebignore"
    ELSE "none"

ChooseIgnore(base, files) ==
    IF IsFile(files, JoinPath(base, ".ebignore")) THEN ".ebignore"
    ELSE IF IsFile(files, JoinPath(base, ".gitignore")) THEN ".gitignore"
    ELSE "none"

\* ignore_matches: the parsed rules of the chosen file, or lambda x: False
ignore_matches(source, rules, path) ==
    IF source = "none" THEN FALSE ELSE path \in rules[source]

\* relative_path = entry.path[len(base_dir) + 1 :]
relative_path(base_dir, path) == SliceFrom(path, Len(base_dir) + 1)

\* ZipFile.write(filename): os.stat of the name, resolved against the working
\* directory; the entry name is the name without its leading separator, with a
\* trailing one for a directory.  (The names here hold no ".", ".." or "//", so
\* normpath leaves them as they are.)
ZipWrite(names, filename, base, files) ==
    LET target == IF StartsWithSep(filename) THEN filename ELSE JoinPath(base, filename)
        arcname == IF StartsWithSep(filename) THEN SliceFrom(filename, 1) ELSE filename
    IN  IF filename = "" \/ ~(target = base \/ Exists(files, target))
        THEN [names |-> names, error |-> FileNotFoundError(filename)]
        ELSE IF target = base \/ IsDir(files, target)
        THEN [names |-> Append(names, arcname \o "/"), error |-> NoError]
        ELSE [names |-> Append(names, arcname), error |-> NoError]

\* The loop over _scantree(base_dir): it ends at the first exception.
_add_files_to_zipfile(base_dir, files, rules, order) ==
    LET source == ChooseIgnore(base_dir, files)
        entries == _scantree(base_dir, files, order)
        F[i \in 0..Len(entries)] ==
            IF i = 0 THEN [names |-> <<>>, skipped |-> {}, error |-> NoError]
            ELSE LET prev == F[i - 1]
                     rel == relative_path(base_dir, entries[i].path)
                     path == entries[i].path
                 IN  IF prev.error # NoError THEN prev
                     ELSE IF ignore_matches(source, rules, entries[i].path)
                     THEN [prev EXCEPT !.skipped = @ \cup {path}]
                     ELSE LET w == ZipWrite(prev.names, rel, base_dir, files)
                          IN  [prev EXCEPT !.names = w.names, !.error = w.error]
    IN  [source |-> source, names |-> F[Len(entries)].names,
         skipped |-> F[Len(entries)].skipped, error |-> F[Len(entries)].error]

(***************************************************************************)
(* create_zipfile: the two nested with blocks release what they hold on    *)
(* every way out, an exception included.                                   *)
(***************************************************************************)
WithExit_LeakOnError(state, error) == IF error = NoError THEN "closed" ELSE state

WithExit(state, error) == "closed"

(***************************************************************************)
(* upload_appver and create_appver.                                        *)
(***************************************************************************)
S3Key_NoSuffix(application, label) == application \o "/" \o label

S3Key(application, label) == application \o "/" \o label \o ".zip"

AlreadyExistsMessage(label) == "Application Version " \o label \o " already exists."

\* Messages of the orchestrator's other client errors.
OtherClientMessages == {"Rate exceeded", "No Application named 'myapp' found."}

NoCall == [called |-> FALSE]

\* The except clause of create_appver on error e (NoError: the call returned).
\* It catches ClientError alone; what it does not raise again, it drops.
create_appver_except_AlwaysRaise(e, label, existing_appver_is_error) ==
    IF e.type # "ClientError" THEN [raised |-> e, log |-> <<>>]
    ELSE IF e.msg = AlreadyExistsMessage(label)
    THEN [raised |-> e, log |-> <<>>]
    ELSE [raised |-> NoError, log |-> <<>>]

create_appver_except(e, label, existing_appver_is_error) ==
    IF e.type # "ClientError" THEN [raised |-> e, log |-> <<>>]
    ELSE IF e.msg = AlreadyExistsMessage(label)
    THEN IF existing_appver_is_error
         THEN [raised |-> e, log |-> <<>>]
         ELSE [raised |-> NoError,
               log |-> << [level |-> "warning",
                           msg |-> "The application version '" \o label
                                   \o "' was created before we could upload it."] >>]
    ELSE [raised |-> NoError, log |-> <<>>]

(***************************************************************************)
(* main, after appver_exists returned.                                     *)
(***************************************************************************)
MainAfterCheck_NoStrict(exists, label, existing_appver_is_error) ==
    IF exists
    THEN [pc |-> "exit", raised |-> NoError,
          log |-> << [level |-> "info",
                      msg |-> "Application version '" \o label \o "' already exists."] >>]
    ELSE [pc |-> "build", raised |-> NoError, log |-> <<>>]

MainAfterCheck_NoReturn(exists, label, existing_appver_is_error) ==
    IF exists /\ existing_appver_is_error
    THEN [pc |-> "exit",
          raised |-> ProgramError("Application version '" \o label \o "' already exists!"),
          log |-> <<>>]
    ELSE [pc |-> "build", raised |-> NoError, log |-> <<>>]

MainAfterCheck(exists, label, existing_appver_is_error) ==
    IF exists
    THEN IF existing_appver_is_error
         THEN [pc |-> "exit",
               raised |-> ProgramError("Application version '" \o label \o "' already exists!"),
               log |-> <<>>]
         ELSE [pc |-> "exit", raised |-> NoError,
               log |-> << [level |-> "info",
                           msg |-> "Application version '" \o label \o "' already exists."] >>]
    ELSE [pc |-> "build", raised |-> NoError, log |-> <<>>]

\* The handler of __main__, and the interpreter's for what it does not catch.
ProcessExit(e) ==
    IF e = NoError THEN [code |-> 0, printed |-> "", traceback |-> FALSE]
    ELSE IF e.type = "ProgramError" THEN [code |-> 1, printed |-> e.msg, traceback |-> FALSE]
    ELSE [code |-> 1, printed |-> "", traceback |-> TRUE]

(***************************************************************************)
(* The initial states: a working directory and its tree, the rules each    *)
(* ignore file that exists parses to, a command line, and an orchestrator  *)
(* that holds the requested version or does not.                           *)
(***************************************************************************)
RulesOf(base, files) ==
    { r \in [IgnoreFiles -> SUBSET NonDirPaths(files)] :
        \A f \in IgnoreFiles : ~IsFile(files, JoinPath(base, f)) => r[f] = {} }

HasVersion(versions, application, label) ==
    \E v \in versions : v.application = application /\ v.label = label

OtherVersion(application, label) ==
    [application |-> application, label |-> label, s3_bucket |-> "other", s3_key |-> "other.zip"]

NoExit == [code |-> -1, printed |-> "", traceback |-> FALSE]
NoZip == [state |-> "none", names |-> <<>>]
NoTmp == [state |-> "none", pos |-> "start"]
NoIgnore == [source |-> "unset", skipped |-> {}]

Init ==
    /\ cwd \in BaseDirs
    /\ fs \in TreesUpTo(cwd, MaxRunNodes)
    /\ ignoreRules \in RulesOf(cwd, fs)
    /\ args \in [application : Applications, label : Labels, s3_bucket : Buckets,
                 description : {""}, existing_appver_is_error : BOOLEAN]
    /\ ebVersions \in {{}, {OtherVersion(args.application, args.label)}}
    /\ s3Objects = {}
    /\ run = 1
    /\ exitCodes = <<>>
    /\ pc = "check"
    /\ stages = <<>>
    /\ found = "unknown"
    /\ tmpfile = NoTmp
    /\ zip = NoZip
    /\ used = NoIgnore
    /\ uploadReq = NoCall
    /\ createReq = NoCall
    /\ s3_key = ""
    /\ raised = NoError
    /\ log = <<>>
    /\ exit = NoExit

(***************************************************************************)
(* appver_exists, and main's branch on its result.                         *)
(***************************************************************************)
appver_exists(versions, application, label) ==
    LET resp == {v \in versions : v.application = application /\ v.label = label}
    IN  Cardinality(resp) > 0

AppverExists ==
    /\ pc = "check"
    /\ stages' = Append(stages, "check")
    /\ \/ LET e == appver_exists(ebVersions, args.application, args.label)
              m == MainAfterCheck(e, args.label, args.existing_appver_is_error)
          IN  /\ found' = IF e THEN "yes" ELSE "no"
              /\ pc' = m.pc
              /\ raised' = m.raised
              /\ log' = log \o m.log
       \/ /\ found' = "error"
          /\ pc' = "exit"
          /\ raised' = EndpointConnectionError
          /\ log' = log
    /\ UNCHANGED <<cwd, fs, ignoreRules, args, ebVersions, s3Objects, run, tmpfile, zip,
                   used, uploadReq, createReq, s3_key, exit, exitCodes>>

(***************************************************************************)
(* create_zipfile up to its yield: the temporary file, the ZipFile, the    *)
(* entries, the close of the ZipFile.                                      *)
(***************************************************************************)
CreateZipfile ==
    /\ pc = "build"
    /\ stages' = Append(stages, "build")
    /\ \E order \in Orders(fs) :
         LET r == _add_files_to_zipfile(cwd, fs, ignoreRules, order)
         IN  /\ zip' = [state |-> WithExit("open", r.error), names |-> r.names]
             /\ used' = [source |-> r.source, skipped |-> r.skipped]
             /\ raised' = r.error
             /\ IF r.error = NoError
                THEN /\ tmpfile' = [state |-> "open", pos |-> "end"]
                     /\ pc' = "upload"
                ELSE /\ tmpfile' = [state |-> WithExit("open", r.error), pos |-> "end"]
                     /\ pc' = "exit"
    /\ UNCHANGED <<cwd, fs, ignoreRules, args, ebVersions, s3Objects, run, found,
                   uploadReq, createReq, s3_key, log, exit, exitCodes>>

(***************************************************************************)
(* The body of main's with block: seek(0) and upload_appver; then the      *)
(* rest of create_zipfile, which releases the temporary file.              *)
(***************************************************************************)
Upload ==
    /\ pc = "upload"
    /\ stages' = Append(stages, "upload")
    /\ LET key == S3Key(args.application, args.label)
           req == [called |-> TRUE, s3_bucket |-> args.s3_bucket, s3_key |-> key,
                   pos |-> "start", file |-> tmpfile.state, zip |-> zip.state,
                   names |-> zip.names]
       IN  \/ /\ uploadReq' = req @@ [result |-> "ok"]
              /\ s3Objects' = {o \in s3Objects : ~(o.s3_bucket = args.s3_bucket /\ o.s3_key = key)}
                                \cup {[s3_bucket |-> args.s3_bucket, s3_key |-> key,
                                       names |-> zip.names]}
              /\ s3_key' = key
              /\ raised' = NoError
              /\ tmpfile' = [state |-> WithExit(tmpfile.state, NoError), pos |-> "end"]
              /\ pc' = "register"
           \/ /\ uploadReq' = req @@ [result |-> "error"]
              /\ s3Objects' = s3Objects
              /\ s3_key' = s3_key
              /\ raised' = EndpointConnectionError
              /\ tmpfile' = [state |-> WithExit(tmpfile.state, EndpointConnectionError),
                             pos |-> "start"]
              /\ pc' = "exit"
    /\ UNCHANGED <<cwd, fs, ignoreRules, args, ebVersions, run, found, zip, used,
                   createReq, log, exit, exitCodes>>

(***************************************************************************)
(* create_appver, and the end of main.                                     *)
(***************************************************************************)
\* What create_application_version can answer.
CreateAnswers(versions, application, label) ==
    (IF HasVersion(versions, application, label)
     THEN {ClientError(AlreadyExistsMessage(label))}
     ELSE {NoError})
    \cup {ClientError(m) : m \in OtherClientMessages}
    \cup {EndpointConnectionError}

CreateAppver ==
    /\ pc = "register"
    /\ stages' = Append(stages, "register")
    /\ \E e \in CreateAnswers(ebVersions, args.application, args.label) :
         LET h == create_appver_except(e, args.label, args.existing_appver_is_error)
         IN  /\ createReq' = [called |-> TRUE, application |-> args.application,
                              label |-> args.label, description |-> args.description,
                              s3_bucket |-> args.s3_bucket, s3_key |-> s3_key,
                              file |-> tmpfile.state, answer |-> e]
             /\ ebVersions' = IF e = NoError
                              THEN ebVersions \cup {[application |-> args.application,
                                                     label |-> args.label,
                                                     s3_bucket |-> args.s3_bucket,
                                                     s3_key |-> s3_key]}
                              ELSE ebVersions
             /\ raised' = h.raised
             /\ log' = IF h.raised = NoError
                       THEN log \o h.log \o << [level |-> "info", msg |-> "All done!"] >>
                       ELSE log \o h.log
    /\ pc' = "exit"
    /\ UNCHANGED <<cwd, fs, ignoreRules, args, s3Objects, run, found, tmpfile, zip, used,
                   uploadReq, s3_key, exit, exitCodes>>

(***************************************************************************)
(* The end of the process.                                                 *)
(***************************************************************************)
Exit ==
    /\ pc = "exit"
    /\ exit' = ProcessExit(raised)
    /\ exitCodes' = Append(exitCodes, ProcessExit(raised).code)
    /\ pc' = "done"
    /\ UNCHANGED <<cwd, fs, ignoreRules, args, ebVersions, s3Objects, run, stages, found,
                   tmpfile, zip, used, uploadReq, createReq, s3_key, raised, log>>

(***************************************************************************)
(* The program is started again, in the same directory, for the same       *)
(* application and label.                                                  *)
(***************************************************************************)
NextRun ==
    /\ pc = "done"
    /\ run < MaxRuns
    /\ run' = run + 1
    /\ \E strict \in BOOLEAN : args' = [args EXCEPT !.existing_appver_is_error = strict]
    /\ pc' = "check"
    /\ stages' = <<>>
    /\ found' = "unknown"
    /\ tmpfile' = NoTmp
    /\ zip' = NoZip
    /\ used' = NoIgnore
    /\ uploadReq' = NoCall
    /\ createReq' = NoCall
    /\ s3_key' = ""
    /\ raised' = NoError
    /\ log' = <<>>
    /\ exit' = NoExit
    /\ UNCHANGED <<cwd, fs, ignoreRules, ebVersions, s3Objects, exitCodes>>

(***************************************************************************)
(* Another publisher registers the same label while the first run is       *)
(* between its existence check and its registration.                       *)
(***************************************************************************)
OtherPublisher ==
    /\ run = 1
    /\ pc \in {"build", "upload", "register"}
    /\ ~HasVersion(ebVersions, args.application, args.label)
    /\ ebVersions' = ebVersions \cup {OtherVersion(args.application, args.label)}
    /\ UNCHANGED <<cwd, fs, ignoreRules, args, s3Objects, run, pc, stages, found, tmpfile,
                   zip, used, uploadReq, createReq, s3_key, raised, log, exit, exitCodes>>

Next ==
    \/ AppverExists
    \/ CreateZipfile
    \/ Upload
    \/ CreateAppver
    \/ Exit
    \/ NextRun
    \/ OtherPublisher

Spec == Init /\ [][Next]_vars

(***************************************************************************)
(* The archive builder alone, over larger trees: main has found no version *)
(* and is about to enter create_zipfile.                                   *)
(***************************************************************************)
InitArchive ==
    /\ cwd \in BaseDirs
    /\ fs \in TreesUpTo(cwd, MaxNodes)
    /\ ignoreRules \in RulesOf(cwd, fs)
    /\ args \in [application : Applications, label : {"v42"}, s3_bucket : Buckets,
                 description : {""}, existing_appver_is_error : {FALSE}]
    /\ ebVersions = {}
    /\ s3Objects = {}
    /\ run = 1
    /\ exitCodes = <<>>
    /\ pc = "build"
    /\ stages = <<"check">>
    /\ found = "no"
    /\ tmpfile = NoTmp
    /\ zip = NoZip
    /\ used = NoIgnore
    /\ uploadReq = NoCall
    /\ createReq = NoCall
    /\ s3_key = ""
    /\ raised = NoError
    /\ log = <<>>
    /\ exit = NoExit

NextArchive == CreateZipfile

SpecArchive == InitArchive /\ [][NextArchive]_vars

(***************************************************************************)
(* What the claims speak of.                                               *)
(***************************************************************************)
Range(seq) == {seq[i] : i \in 1..Len(seq)}
IsPrefix(q, t) == Len(q) <= Len(t) /\ q = SubSeq(t, 1, Len(q))
StageOrder == <<"check", "build", "upload", "register">>
Strict == args.existing_appver_is_error
Conflict == ClientError("Application Version " \o args.label \o " already exists.")
Logged(level, msg) == \E i \in 1..Len(log) : log[i] = [level |-> level, msg |-> msg]
ExpectedKey == args.application \o "/" \o args.label \o ".zip"
ExistsMessage == "Application version '" \o args.label \o "' already exists!"

\* The path of p relative to the tree root base.
RelativeTo(base, p) ==
    IF EndsWithSep(base) THEN SliceFrom(p, Len(base)) ELSE SliceFrom(p, Len(base) + 1)

\* The ignore file that takes precedence in the working directory.
Precedence ==
    IF \E n \in fs : n.path = JoinPath(cwd, ".ebignore") /\ n.kind = "file" THEN ".ebignore"
    ELSE IF \E n \in fs : n.path = JoinPath(cwd, ".gitignore") /\ n.kind = "file" THEN ".gitignore"
    ELSE "none"

\* The files the predicate in use matches.
Matched == IF used.source \in IgnoreFiles THEN ignoreRules[used.source] ELSE {}

\* C1 (its instance with the second run in normal mode): after a run that
\* exited with code 0, with no other publisher acting since, a later run whose
\* existence check answers calls neither upload_appver nor create_appver and
\* exits with code 0.  (In strict mode the later run exits with code 1 at the
\* existence check, as C2 states.)
C1_IdempotentSecondRun ==
    (run >= 2 /\ exitCodes[run - 1] = 0 /\ ~Strict /\ found # "error")
        => /\ ~uploadReq.called
           /\ ~createReq.called
           /\ pc = "done" => exit.code = 0

\* C2: when appver_exists found the version and --existing-appver-is-error is
\* set, the run prints the message and exits with code 1, having built no
\* archive and called neither upload_appver nor create_appver.
C2_StrictPreflight ==
    (found = "yes" /\ Strict)
        => /\ pc \in {"exit", "done"}
           /\ stages = <<"check">>
           /\ zip.state = "none" /\ tmpfile.state = "none"
           /\ ~uploadReq.called
           /\ ~createReq.called
           /\ raised = [type |-> "ProgramError", msg |-> ExistsMessage]
           /\ pc = "done" => exit = [code |-> 1, printed |-> ExistsMessage, traceback |-> FALSE]

C2_Witness == found = "yes" /\ Strict /\ pc = "done" /\ exit.code = 1

\* C3: when create_application_version fails with an error other than the
\* 'already exists' conflict, that error leaves create_appver unchanged and
\* the run does not reach 'All done!' and exit code 0.
C3_OtherErrorsFatal ==
    (createReq.called /\ createReq.answer \notin {NoError, Conflict})
        => /\ raised = createReq.answer
           /\ ~Logged("info", "All done!")
           /\ pc = "done" => exit.code # 0

\* C4: in strict mode, when the existence check found nothing, the upload
\* succeeded and the registration answers with the conflict, the run ends
\* through ProgramError: exit code 1, a printed message, no traceback.
C4_StrictRaceClean ==
    (createReq.called /\ createReq.answer = Conflict /\ Strict
       /\ found = "no" /\ uploadReq.result = "ok")
        => /\ raised.type = "ProgramError"
           /\ pc = "done" => (exit.code = 1 /\ exit.printed # "" /\ ~exit.traceback)

\* C5: in normal mode, when the upload succeeded and the registration answers
\* with the conflict, create_appver logs a warning and returns, and the run
\* reports success and exits with code 0.
C5_BenignRace ==
    (createReq.called /\ createReq.answer = Conflict /\ ~Strict)
        => /\ uploadReq.result = "ok"
           /\ raised = NoError
           /\ \E i \in 1..Len(log) : log[i].level = "warning"
           /\ Logged("info", "All done!")
           /\ pc = "done" => exit = [code |-> 0, printed |-> "", traceback |-> FALSE]

C5_Witness ==
    createReq.called /\ createReq.answer = Conflict /\ ~Strict /\ pc = "done" /\ exit.code = 0

\* C6: the entry names of the archive _add_files_to_zipfile wrote are exactly
\* the paths, relative to the working directory, of the files of the tree the
\* ignore predicate does not match.
C6_ArchiveContents ==
    (zip.state = "closed" /\ raised = NoError)
        => Range(zip.names) = {RelativeTo(cwd, p) : p \in NonDirPaths(fs) \ Matched}

\* C7: upload_appver uploads to the key application/label.zip of the given
\* bucket and returns it, and create_appver registers that bucket and key.
C7_StorageKey ==
    /\ uploadReq.called
         => /\ uploadReq.s3_bucket = args.s3_bucket
            /\ uploadReq.s3_key = ExpectedKey
            /\ (args.application = "myapp" /\ args.label = "v42")
                 => uploadReq.s3_key = "myapp/v42.zip"
            /\ uploadReq.result = "ok"
                 => /\ s3_key = ExpectedKey
                    /\ \E o \in s3Objects : o.s3_bucket = args.s3_bucket /\ o.s3_key = ExpectedKey
    /\ createReq.called
         => /\ createReq.s3_bucket = uploadReq.s3_bucket
            /\ createReq.s3_key = uploadReq.s3_key
            /\ createReq.s3_key = ExpectedKey
            /\ createReq.answer = NoError
                 => \E v \in ebVersions : /\ v.application = args.application
                                          /\ v.label = args.label
                                          /\ v.s3_bucket = args.s3_bucket
                                          /\ v.s3_key = ExpectedKey

C7_Witness ==
    /\ createReq.called /\ createReq.answer = NoError
    /\ args.application = "myapp" /\ args.label = "v42"
    /\ createReq.s3_key = "myapp/v42.zip"

\* C8: the predicate of an archive build is that of .ebignore if it is a file
\* of the working directory, else that of .gitignore if it is one, else the
\* predicate that matches nothing; the other file's rules skip no entry.
C8_IgnorePrecedence ==
    zip.state = "closed"
        => /\ used.source = Precedence
           /\ used.skipped \subseteq (IF Precedence = "none" THEN {} ELSE ignoreRules[Precedence])
           /\ raised = NoError
                => used.skipped = (IF Precedence = "none" THEN {}
                                   ELSE ignoreRules[Precedence] \cap NonDirPaths(fs))

C8_Witness ==
    /\ zip.state = "closed" /\ raised = NoError
    /\ \E n \in fs : n.path = JoinPath(cwd, ".ebignore") /\ n.kind = "file"
    /\ \E n \in fs : n.path = JoinPath(cwd, ".gitignore") /\ n.kind = "file"
    /\ ignoreRules[".gitignore"] # {} /\ ignoreRules[".ebignore"] = {}
    /\ used.source = ".ebignore" /\ used.skipped = {}

\* C9: the stages of a run are a prefix of check, build, upload, register; a
\* stage follows only a stage that ended without error (and a check that found
\* nothing); the upload reads the sealed archive from position 0; an archive
\* without entries is uploaded and registered like any other.
C9_StageOrder ==
    /\ IsPrefix(stages, StageOrder)
    /\ Len(stages) >= 2 => found = "no"
    /\ Len(stages) >= 3 => (zip.state = "closed" /\ uploadReq.called)
    /\ Len(stages) >= 4 => (uploadReq.result = "ok" /\ createReq.called)
    /\ uploadReq.called
         => (uploadReq.zip = "closed" /\ uploadReq.pos = "start" /\ uploadReq.names = zip.names)
    /\ (pc \in {"exit", "done"} /\ Len(stages) < 4)
         => (found = "yes" \/ raised # NoError)
    /\ (pc \in {"exit", "done"} /\ Len(stages) = 2) => raised.type = "FileNotFoundError"
    /\ pc = "check" <=> stages = <<>>
    /\ pc = "build" => stages = <<"check">>
    /\ pc = "upload" => stages = <<"check", "build">>
    /\ pc = "register" => stages = <<"check", "build", "upload">>

C9_Witness ==
    /\ pc = "done" /\ exit.code = 0
    /\ stages = <<"check", "build", "upload", "register">>
    /\ zip.names = <<>>
    /\ uploadReq.names = <<>>
    /\ createReq.answer = NoError

\* C10: the temporary file is open only between the archive build and the end
\* of the upload; it is released in every terminal state and already released
\* when create_application_version is called.
C10_TempfileLifetime ==
    /\ tmpfile.state = "open" => pc = "upload"
    /\ pc \in {"exit", "done"} => tmpfile.state # "open"
    /\ pc = "register" => tmpfile.state = "closed"
    /\ createReq.called => createReq.file = "closed"
    /\ uploadReq.called => (uploadReq.file = "open" /\ tmpfile.state = "closed")
    /\ (Len(stages) >= 2 /\ raised # NoError) => (tmpfile.state = "closed" /\ zip.state = "closed")

C10_Witness ==
    /\ pc = "done" /\ uploadReq.called /\ uploadReq.result = "error"
    /\ tmpfile.state = "closed" /\ exit.traceback

====
